---- MODULE Spec2Model ----
(***************************************************************************)
(* The workflow executor of flows/pipeline.py: the timeout envelope        *)
(* run_crew_with_timeout, the checkpoint gate hitl_checkpoint and the      *)
(* linear stage graph of SlotStudioFlow, for one job.                      *)
(*                                                                         *)
(* The driver is the thread that runs the flow's stage methods one after   *)
(* the other.  Every envelope call starts one daemon thread that runs the  *)
(* crew; a thread the envelope stopped waiting for keeps running and takes *)
(* its steps interleaved with the later stages.                            *)
(***************************************************************************)
EXTENDS Integers, Sequences, FiniteSets, TLC

\* ------------------------------------------------------------------ bounds
\* Wall-clock time advances in ticks of this many seconds while the driver
\* waits in thread.join(timeout).
TickSeconds == 600
\* Cap on the number of external calls that go wrong in one run: a call that
\* raises, a crew that outlives its timeout or ends without having saved its
\* artifact, a job store that takes no writes.
MaxFaults == 1

\* ------------------------------------------------------- program constants
STAGE_TIMEOUTS ==
    [research |-> 900, design |-> 900, mood_board |-> 600,
     production |-> 1800, recon |-> 600]

DefaultTimeout == 1200

\* StageTimeout as it would be if the stage's own entry were not looked up.
StageTimeout_default_only(stage_name) == DefaultTimeout

\* STAGE_TIMEOUTS.get(stage_name, 1200)
StageTimeout(stage_name) ==
    IF stage_name \in DOMAIN STAGE_TIMEOUTS
    THEN STAGE_TIMEOUTS[stage_name] ELSE DefaultTimeout

\* Python's None, as a value of an Optional[dict] field or of a holder.
None == [none |-> TRUE]

\* A holder slot that has been assigned x.
Some(x) == [some |-> x]

\* The stage methods of SlotStudioFlow in the order the @listen chain runs them.
FlowOrder ==
    <<"initialize", "run_preflight", "run_research", "checkpoint_research",
      "run_design_and_math", "checkpoint_design", "run_mood_boards",
      "checkpoint_art", "run_production", "assemble_package">>

WorkStages ==
    {"run_research", "run_design_and_math", "run_mood_boards", "run_production"}

CheckpointStages ==
    {"checkpoint_research", "checkpoint_design", "checkpoint_art"}

\* Every stage method that makes an envelope call owns one thread.
Threads == WorkStages \cup CheckpointStages

\* The stage_name each stage method hands to run_crew_with_timeout.
EnvelopeName(s) ==
    CASE s = "run_research" -> "research"
      [] s = "run_design_and_math" -> "design"
      [] s = "run_mood_boards" -> "mood_board"
      [] s = "run_production" -> "production"
      [] OTHER -> "recon"

\* The checkpoint name each checkpoint stage hands to hitl_checkpoint.
CheckpointName(s) ==
    CASE s = "checkpoint_research" -> "post_research"
      [] s = "checkpoint_design" -> "post_design_math"
      [] OTHER -> "post_art_review"

CheckpointNames == {CheckpointName(s) : s \in CheckpointStages}

\* The artifact the crew of a stage is told to save.
AgentFile(s) ==
    CASE s = "run_research" -> "01_research/market_report.md"
      [] s = "run_design_and_math" -> "02_design/gdd.md"
      [] s = "run_mood_boards" -> "04_art/mood_boards/qa_report.json"
      [] s = "run_production" -> "05_legal/compliance_review.md"
      [] OTHER -> "adversarial_review_" \o CheckpointName(s) \o ".md"

\* The label each stage method writes to the job store first.
StageLabel(s) ==
    CASE s = "initialize" -> "Initializing pipeline"
      [] s = "run_preflight" -> "Pre-flight intelligence"
      [] s = "run_research" -> "Market research (15 min)"
      [] s = "checkpoint_research" -> "Research review"
      [] s = "run_design_and_math" -> "GDD + Math model (15 min)"
      [] s = "checkpoint_design" -> "Design review"
      [] s = "run_mood_boards" -> "Mood boards (10 min)"
      [] s = "checkpoint_art" -> "Art direction review"
      [] s = "run_production" -> "Art + Audio + Compliance (30 min)"
      [] OTHER -> "Assembling final package"

\* The subdirectories initialize creates under the output root, in order.
SkeletonList ==
    <<"00_preflight", "01_research", "02_design", "03_math",
      "04_art/mood_boards", "04_art/symbols", "04_art/backgrounds",
      "04_art/ui", "04_audio", "05_legal", "06_pdf", "07_prototype">>

\* The directory skeleton initialize creates under the output root.
Skeleton == {SkeletonList[i] : i \in DOMAIN SkeletonList}

\* The directories above a subdirectory, below the output root.
Parents(sub) ==
    IF sub \in {"04_art/mood_boards", "04_art/symbols", "04_art/backgrounds",
                "04_art/ui"}
    THEN {"04_art"} ELSE {}

\* ExistOk as it would be if mkdir were called without exist_ok.
ExistOk_false == FALSE

\* The exist_ok argument initialize passes to Path.mkdir.
ExistOk == TRUE

\* Path.mkdir(parents=True, exist_ok=ExistOk) raises FileExistsError if the
\* path is a file, or is a directory and exist_ok is not set.
MkdirRaises(ds, fs, sub) == sub \in fs \/ (sub \in ds /\ ~ExistOk)

\* The directories after a mkdir that did not raise.
Mkdir(ds, sub) == ds \cup {sub} \cup Parents(sub)

\* for sub in [...]: Path(output_dir, sub).mkdir(parents=True, exist_ok=True)
\* from the i-th subdirectory on, over the directories ds and the files fs.
RECURSIVE make_dirs(_, _, _)
make_dirs(ds, fs, i) ==
    IF i > Len(SkeletonList) THEN [dirs |-> ds, raised |-> FALSE]
    ELSE IF MkdirRaises(ds, fs, SkeletonList[i])
    THEN [dirs |-> ds, raised |-> TRUE]
    ELSE make_dirs(Mkdir(ds, SkeletonList[i]), fs, i + 1)

\* game_idea.theme, character by character.
Theme == <<"D", "r", "a", "g", "o", "n", " ", "G", "o", "l", "d", "!">>

\* The values of datetime.now().strftime("%Y%m%d_%H%M%S") a run can start at.
Timestamps == {"20260101_090000", "20260102_101500"}

\* str.lower() and str.isalnum() on the characters of the themes.
LowerChar(c) == CASE c = "D" -> "d" [] c = "G" -> "g" [] OTHER -> c
IsAlnum(c) == c \notin {" ", "!", "_"}

SlugLen == 40

\* "".join(c if c.isalnum() else "_" for c in theme.lower())[:40]
Slug(theme) ==
    LET low == [i \in 1..Len(theme) |-> LowerChar(theme[i])]
        under == [i \in 1..Len(low) |->
                     IF IsAlnum(low[i]) THEN low[i] ELSE "_"]
    IN SubSeq(under, 1, IF Len(under) < SlugLen THEN Len(under) ELSE SlugLen)

\* str(Path(os.getenv("OUTPUT_DIR", "./output")) / f"{slug}_{ts}"), as the
\* sequence of its pieces.
output_root(theme, ts) == <<"./output", "/">> \o Slug(theme) \o <<"_", ts>>

\* What the crew of a stage returns from kickoff(), and what it raises if it
\* raises.
CrewResult(t) == "result of " \o EnvelopeName(t) \o " in " \o t
CrewError(t) == "error of " \o EnvelopeName(t) \o " in " \o t

\* Feedback texts, as sequences of words.
Feedbacks ==
    {<<>>, <<"skip">>, <<"SKIP">>, <<"bad", "palette">>}

VARIABLES
    stage,          \* the stage method the driver is in, or "done" / "failed"
    at,             \* the driver's position inside that method
    auto_mode,      \* SlotStudioFlow.auto_mode
    HITL_ENABLED,   \* PipelineConfig.HITL_ENABLED
    state,          \* the PipelineState of the job
    thr,            \* per envelope call: "none", "alive" or "dead"
    result_holder,  \* result_holder[0] of the call the driver waits in
    error_holder,   \* error_holder[0] of the call the driver waits in
    elapsed,        \* seconds the driver has waited in the current join
    ret,            \* outcome of the last envelope call
    failure,        \* the exception that left the flow, or None
    files,          \* files under the job's output root
    dirs,           \* directories under the job's output root
    db_stage,       \* current_stage column of the job's row
    db_ok,          \* whether the job store takes the writes of this run
    faults,         \* external calls that went wrong so far
    kickoffs,       \* per thread: number of crew.kickoff() calls
    hitl,           \* per checkpoint name: what hitl_checkpoint did
    clock,          \* datetime.now() as initialize formats it
    db_status,      \* status column of the job's row, "none" without a row
    db_error,       \* error column of the job's row
    stale,          \* created_at < datetime('now', '-75 minutes')
    selected,       \* the rows the running recovery sweep has fetched
    pdf_inputs,     \* what generate_full_package was called with, or None
    comp_json,      \* what 05_legal/compliance_report.json holds
    listing,        \* the files under an output root, oldest first
    shown           \* the file list handed to the review channel, or None

vars ==
    <<stage, at, auto_mode, HITL_ENABLED, state, thr, result_holder,
      error_holder, elapsed, ret, failure, files, dirs, db_stage, db_ok,
      faults, kickoffs, hitl, clock, db_status, db_error, stale, selected,
      pdf_inputs, comp_json, listing, shown>>

\* The flow's configuration and environment: set at construction, never
\* assigned again.
config == <<auto_mode, HITL_ENABLED, db_ok, clock>>

\* The status and error columns of the job's row, its age and the sweep.
lease == <<db_status, db_error, stale, selected>>

\* The inputs of the PDF generator and the structured compliance report.
assembly == <<pdf_inputs, comp_json>>

\* The directory listing of hitl_checkpoint and the list it hands on.
review_list == <<listing, shown>>

\* The locals of the envelope call and its thread.
envelope == <<thr, result_holder, error_holder, elapsed, ret, kickoffs>>

\* No envelope call has returned yet.
NoRet == [kind |-> "none", val |-> ""]

\* PipelineState()
PipelineState(jid) ==
    [job_id |-> jid,
     output_dir |-> <<>>,
     trend_radar |-> None,
     jurisdiction_constraints |-> None,
     patent_scan |-> None,
     market_research |-> None,
     research_approved |-> FALSE,
     gdd |-> None,
     math_model |-> None,
     design_math_approved |-> FALSE,
     mood_board |-> None,
     mood_board_approved |-> FALSE,
     art_assets |-> None,
     compliance |-> None,
     sound_design |-> None,
     certification_plan |-> None,
     prototype_path |-> "",
     errors |-> <<>>,
     hitl_approvals |-> {},
     started_at |-> "",
     completed_at |-> "",
     pdf_files |-> <<>>]

\* What one checkpoint's hitl_checkpoint call did: the values assigned to
\* hitl_approvals[name], the values returned, the tries of the remote channel,
\* the answers of the interactive prompt, the feedback text a rejection came
\* with, the action field of the review form the remote decision was
\* submitted with, and the path taken.
NoHitl ==
    [written |-> <<>>, returned |-> <<>>, remote |-> 0, answers |-> <<>>,
     feedback |-> <<>>, action |-> None, path |-> "none"]

\* The configurations a run is started in: from the command line or by the
\* web worker, interactive or not.  db: whether the job store takes the
\* status writes of this run.
Configs ==
    {[auto |-> TRUE, hitl |-> TRUE, jid |-> "job-1", db |-> TRUE,
      ts |-> "20260101_090000"],
     [auto |-> TRUE, hitl |-> TRUE, jid |-> "job-1", db |-> FALSE,
      ts |-> "20260101_090000"],
     [auto |-> FALSE, hitl |-> FALSE, jid |-> "", db |-> TRUE,
      ts |-> "20260101_090000"],
     [auto |-> FALSE, hitl |-> TRUE, jid |-> "", db |-> TRUE,
      ts |-> "20260101_090000"],
     [auto |-> FALSE, hitl |-> TRUE, jid |-> "job-1", db |-> TRUE,
      ts |-> "20260102_101500"]}

Init ==
    /\ \E c \in Configs :
         /\ auto_mode = c.auto
         /\ HITL_ENABLED = c.hitl
         /\ state = PipelineState(c.jid)
         /\ db_ok = c.db
         /\ faults = IF c.db THEN 0 ELSE 1
         /\ clock = c.ts
         /\ at = IF c.jid = "" THEN "begin" ELSE "submit"
    /\ stage = "initialize"
    /\ thr = [t \in Threads |-> "none"]
    /\ result_holder = None
    /\ error_holder = None
    /\ elapsed = 0
    /\ ret = NoRet
    /\ failure = None
    /\ files = {}
    /\ dirs = {}
    /\ db_stage = "Initializing"
    /\ kickoffs = [t \in Threads |-> 0]
    /\ hitl = [n \in CheckpointNames |-> NoHitl]
    /\ db_status = "none"
    /\ db_error = None
    /\ stale = FALSE
    /\ selected = "idle"
    /\ pdf_inputs = None
    /\ comp_json = "absent"
    /\ listing = <<>>
    /\ shown = None

\* ----------------------------------------------------------------- helpers
IndexOf(s) == CHOOSE i \in 1..Len(FlowOrder) : FlowOrder[i] = s

\* NextStage as it would be if each method listened to the one before its
\* predecessor.
NextStage_skips(s) ==
    IF IndexOf(s) >= Len(FlowOrder) - 1 THEN "done"
    ELSE FlowOrder[IndexOf(s) + 2]

\* The @listen chain: the method that runs when s has returned.
NextStage(s) ==
    IF IndexOf(s) = Len(FlowOrder) THEN "done" ELSE FlowOrder[IndexOf(s) + 1]

\* update_stage_db as it would be without "if not job_id: return".
update_stage_db_unguarded(job_id, label) ==
    IF db_ok THEN label ELSE db_stage

\* _update_stage_db(job_id, stage): no write without a job id; a write that
\* fails is swallowed and leaves the column as it was.
update_stage_db(job_id, label) ==
    IF job_id = "" THEN db_stage
    ELSE IF db_ok THEN label
    ELSE db_stage

UpdateStage(s) == db_stage' = update_stage_db(state.job_id, StageLabel(s))

\* The method returns: the next listener starts.
Return(s) ==
    /\ stage' = NextStage(s)
    /\ at' = "begin"

\* n more external calls go wrong in this step.
Fault(n) ==
    /\ faults + n <= MaxFaults
    /\ faults' = faults + n

\* Extend as it would be if the entries were assigned, not appended.
Extend_replaces(errors, entries) == entries

\* state.errors.extend(entries); append is the case of one entry.
Extend(errors, entries) == errors \o entries

\* ------------------------------------------------------------ crew threads
\* The threads are daemon threads: they end with the flow's process.
ProcessAlive == stage \notin {"done", "failed"}

\* The driver is inside thread.join of the envelope call that started t.
Awaited(t) == stage = t /\ at = "wait"

\* HolderRead as it would be if the envelope calls shared their holders.
HolderRead_shared(t) == at = "wait"

\* The holders thread t writes are the ones the driver reads: they are
\* locals of the envelope call that started t, read after its join only.
HolderRead(t) == Awaited(t)

\* The crew saves its artifact while kickoff() runs.
crew_writes_file(t) ==
    /\ ProcessAlive
    /\ thr[t] = "alive"
    /\ AgentFile(t) \notin files
    /\ files' = files \cup {AgentFile(t)}
    /\ UNCHANGED <<stage, at, config, assembly, review_list, lease, state, envelope, failure, dirs,
                   db_stage, faults, hitl>>

\* What the production crew can leave in 05_legal/compliance_report.json: a
\* JSON object, a JSON array, or text that is no JSON.
JsonShapes == {"object", "array", "garbage"}

\* The production crew saves the structured compliance report.
crew_writes_json(shape) ==
    /\ ProcessAlive
    /\ thr["run_production"] = "alive"
    /\ comp_json = "absent"
    /\ Fault(IF shape = "object" THEN 0 ELSE 1)
    /\ comp_json' = shape
    /\ UNCHANGED <<stage, at, config, review_list, pdf_inputs, lease, state,
                   envelope, failure, files, dirs, db_stage, hitl>>

\* _run: result_holder[0] = crew.kickoff().  The holders of a call that has
\* returned are garbage nobody reads.
run_returns(t) ==
    /\ ProcessAlive
    /\ thr[t] = "alive"
    /\ Fault(IF Awaited(t) /\ AgentFile(t) \notin files THEN 1 ELSE 0)
    /\ thr' = [thr EXCEPT ![t] = "dead"]
    /\ result_holder' = IF HolderRead(t) THEN Some(CrewResult(t))
                        ELSE result_holder
    /\ UNCHANGED <<stage, at, config, assembly, review_list, lease, state, error_holder, elapsed, ret,
                   kickoffs, failure, files, dirs, db_stage, hitl>>

\* _run: except Exception as e: error_holder[0] = e
run_raises(t) ==
    /\ ProcessAlive
    /\ thr[t] = "alive"
    /\ Fault(IF Awaited(t) THEN 1 ELSE 0)
    /\ thr' = [thr EXCEPT ![t] = "dead"]
    /\ error_holder' = IF HolderRead(t) THEN Some(CrewError(t))
                       ELSE error_holder
    /\ UNCHANGED <<stage, at, config, assembly, review_list, lease, state, result_holder, elapsed, ret,
                   kickoffs, failure, files, dirs, db_stage, hitl>>

\* ---------------------------------------------------------------- envelope
\* run_crew_with_timeout up to thread.start(): fresh holders, one thread.
thread_start(t) ==
    /\ thr' = [thr EXCEPT ![t] = "alive"]
    /\ kickoffs' = [kickoffs EXCEPT ![t] = @ + 1]
    /\ result_holder' = None
    /\ error_holder' = None
    /\ elapsed' = 0
    /\ ret' = NoRet

\* thread.join(timeout=timeout): time passes, the thread is still running.
thread_join_tick ==
    /\ at = "wait"
    /\ thr[stage] = "alive"
    /\ elapsed + TickSeconds < StageTimeout(EnvelopeName(stage))
    /\ elapsed' = elapsed + TickSeconds
    /\ UNCHANGED <<stage, at, config, assembly, review_list, lease, state, thr, result_holder,
                   error_holder, ret, kickoffs, failure, files, dirs,
                   db_stage, faults, hitl>>

\* Abandon as it would be if the envelope ended the thread on a timeout.
Abandon_kills(t) == [thr EXCEPT ![t] = "dead"]

\* What the envelope does with the thread it stops waiting for: nothing.
Abandon(t) == thr

\* TimeoutSignal as it would be if the envelope did not look at is_alive()
\* and handed back the empty result holder as a result.
TimeoutSignal_as_result == [kind |-> "value", val |-> "None"]

\* if thread.is_alive(): ... return None
TimeoutSignal == [kind |-> "timeout", val |-> "None"]

\* The join times out and thread.is_alive() holds: return None.
envelope_timeout ==
    /\ at = "wait"
    /\ thr[stage] = "alive"
    /\ elapsed + TickSeconds >= StageTimeout(EnvelopeName(stage))
    /\ Fault(1)
    /\ elapsed' = StageTimeout(EnvelopeName(stage))
    /\ ret' = TimeoutSignal
    /\ thr' = Abandon(stage)
    /\ at' = "post"
    /\ UNCHANGED <<stage, config, assembly, review_list, lease, state, result_holder, error_holder,
                   kickoffs, failure, files, dirs, db_stage, hitl>>

\* Outcome as it would be if the captured error were not re-raised.
Outcome_swallows(result, error) ==
    IF error # None
    THEN [kind |-> "value", val |-> "None"]
    ELSE [kind |-> "value", val |-> result.some]

\* Outcome as it would be if the result holder were not handed back.
Outcome_drops_result(result, error) ==
    IF error # None
    THEN [kind |-> "raise", val |-> error.some]
    ELSE [kind |-> "value", val |-> "None"]

\* What the envelope hands back once the thread has ended: raise
\* error_holder[0] if it is set, else return result_holder[0].
Outcome(result, error) ==
    IF error # None
    THEN [kind |-> "raise", val |-> error.some]
    ELSE [kind |-> "value", val |-> result.some]

\* The thread ended before the timeout.
envelope_joined ==
    /\ at = "wait"
    /\ thr[stage] = "dead"
    /\ ret' = Outcome(result_holder, error_holder)
    /\ result_holder' = None
    /\ error_holder' = None
    /\ at' = "post"
    /\ UNCHANGED <<stage, config, assembly, review_list, lease, state, thr, elapsed, kickoffs, failure,
                   files, dirs, db_stage, faults, hitl>>

\* ------------------------------------------------------------------ stages
\* str(task.output) of the stage's last task: set once the crew has finished.
TaskOutput == IF ret.kind = "value" THEN "task_output" ELSE "None"

\* Propagate as it would be if the stage method caught the exception, noted
\* it and returned.
Propagate_continues ==
    /\ stage' = NextStage(stage)
    /\ at' = "begin"
    /\ failure' = Some(ret.val)

\* An exception raised by the envelope leaves the stage method and the flow.
Propagate ==
    /\ stage' = "failed"
    /\ at' = "begin"
    /\ failure' = Some(ret.val)

initialize ==
    LET made == make_dirs(dirs, files, 1) IN
    /\ stage = "initialize"
    /\ at = "begin"
    /\ UpdateStage("initialize")
    /\ state' = [state EXCEPT !.started_at = "now",
                              !.output_dir = output_root(Theme, clock)]
    /\ dirs' = made.dirs
    /\ IF made.raised
       THEN /\ stage' = "failed"
            /\ at' = "begin"
            /\ failure' = Some("FileExistsError")
       ELSE /\ Return("initialize")
            /\ UNCHANGED failure
    /\ UNCHANGED <<config, assembly, review_list, lease, envelope, files, faults, hitl>>

\* The five best-effort sub-steps of run_preflight.
PreflightSteps ==
    {"trend_radar", "jurisdiction", "knowledge_base", "patent_scan", "recon"}

\* What the jurisdiction check can report as blockers.
Blockers == {<<>>, <<<<"blocker">>>>}

\* OnPreflightFailure as it would be without the except clauses.
OnPreflightFailure_raises == "raise"

\* What run_preflight does with an exception of a sub-step: each sub-step is
\* in a try of its own whose except clause prints and goes on.
OnPreflightFailure == "swallow"

\* ok: the sub-steps that do not raise.
run_preflight(ok, blockers) ==
    /\ stage = "run_preflight"
    /\ at = "begin"
    /\ UpdateStage("run_preflight")
    /\ Fault(Cardinality(PreflightSteps \ ok))
    /\ state' =
         [state EXCEPT
            !.trend_radar =
                IF "trend_radar" \in ok THEN [themes |-> "radar"] ELSE @,
            !.jurisdiction_constraints =
                IF "jurisdiction" \in ok THEN [blockers |-> blockers] ELSE @,
            !.errors =
                IF "jurisdiction" \in ok THEN Extend(@, blockers) ELSE @,
            !.patent_scan =
                IF "patent_scan" \in ok THEN [risk |-> "LOW"] ELSE @]
    /\ files' = files
         \cup (IF "trend_radar" \in ok
               THEN {"00_preflight/trend_radar.json"} ELSE {})
         \cup (IF "jurisdiction" \in ok
               THEN {"00_preflight/jurisdiction_constraints.json"} ELSE {})
         \cup (IF "patent_scan" \in ok
               THEN {"00_preflight/patent_scan.json"} ELSE {})
    /\ IF ok = PreflightSteps \/ OnPreflightFailure = "swallow"
       THEN /\ Return("run_preflight")
            /\ UNCHANGED failure
       ELSE /\ stage' = "failed"
            /\ at' = "begin"
            /\ failure' = Some("error of a pre-flight sub-step")
    /\ UNCHANGED <<config, assembly, review_list, lease, envelope, dirs, hitl>>

\* A work stage up to its envelope call.  approved is the flag the stage is
\* gated by (TRUE for run_research, which has no gate).
StageBegin(s, approved) ==
    /\ stage = s
    /\ at = "begin"
    /\ UpdateStage(s)
    /\ IF approved
       THEN /\ thread_start(s)
            /\ at' = "wait"
            /\ stage' = s
       ELSE /\ Return(s)
            /\ UNCHANGED envelope
    /\ UNCHANGED <<config, assembly, review_list, lease, state, failure, files, dirs, faults, hitl>>

run_research_begin == StageBegin("run_research", TRUE)

\* The document run_research stores, from the envelope's outcome r and the
\* report the crew may have saved.
market_research(r, saved) ==
    [report |-> IF saved THEN "market_report.md"
                ELSE IF r.kind = "value" THEN "task_output" ELSE "None",
     raw |-> r.val]

\* run_research after the envelope call
run_research ==
    /\ stage = "run_research"
    /\ at = "post"
    /\ IF ret.kind = "raise"
       THEN /\ Propagate
            /\ UNCHANGED <<state, files>>
       ELSE /\ state' =
                 [state EXCEPT !.market_research =
                    market_research(ret, AgentFile("run_research") \in files)]
            /\ files' = files \cup {"01_research/market_research.json"}
            /\ Return("run_research")
            /\ UNCHANGED failure
    /\ UNCHANGED <<config, assembly, review_list, lease, envelope, dirs, db_stage, faults, hitl>>

run_design_and_math_begin ==
    StageBegin("run_design_and_math", state.research_approved)

\* run_design_and_math after the envelope call
run_design_and_math ==
    /\ stage = "run_design_and_math"
    /\ at = "post"
    /\ IF ret.kind = "raise"
       THEN /\ Propagate
            /\ UNCHANGED state
       ELSE /\ state' =
                 [state EXCEPT
                    !.gdd = [output |-> IF AgentFile("run_design_and_math")
                                             \in files
                                        THEN "gdd.md" ELSE TaskOutput],
                    !.math_model =
                        IF "03_math/simulation_results.json" \in files
                        THEN [output |-> TaskOutput, results |-> "sim"]
                        ELSE [output |-> TaskOutput]]
            /\ Return("run_design_and_math")
            /\ UNCHANGED failure
    /\ UNCHANGED <<config, assembly, review_list, lease, envelope, files, dirs, db_stage, faults, hitl>>

run_mood_boards_begin ==
    StageBegin("run_mood_boards", state.design_math_approved)

\* run_mood_boards after the envelope call
run_mood_boards ==
    /\ stage = "run_mood_boards"
    /\ at = "post"
    /\ IF ret.kind = "raise"
       THEN /\ Propagate
            /\ UNCHANGED state
       ELSE /\ state' = [state EXCEPT !.mood_board = [output |-> ret.val]]
            /\ Return("run_mood_boards")
            /\ UNCHANGED failure
    /\ UNCHANGED <<config, assembly, review_list, lease, envelope, files, dirs, db_stage, faults, hitl>>

\* run_production_begin as it would be without the approval check.
run_production_ungated == StageBegin("run_production", TRUE)

run_production_begin ==
    StageBegin("run_production", state.mood_board_approved)

\* run_production after the envelope call.  audio: whether the direct
\* sound-design call succeeds (the crew of the model saves no audio files).
run_production(audio) ==
    /\ stage = "run_production"
    /\ at = "post"
    /\ Fault(IF ret.kind # "raise" /\ ~audio THEN 1 ELSE 0)
    /\ IF ret.kind = "raise"
       THEN /\ Propagate
            /\ UNCHANGED <<state, files, dirs>>
       ELSE /\ state' =
                 [state EXCEPT
                    !.art_assets = [output |-> TaskOutput],
                    !.compliance =
                        IF comp_json \in {"object", "array"}
                        THEN [output |-> IF AgentFile("run_production")
                                              \in files
                                         THEN "compliance_review.md"
                                         ELSE TaskOutput,
                              results |-> comp_json]
                        ELSE [output |-> IF AgentFile("run_production")
                                              \in files
                                         THEN "compliance_review.md"
                                         ELSE TaskOutput],
                    !.certification_plan =
                        IF "05_legal/certification_plan.json" \in files
                        THEN [plan |-> "cert"] ELSE @,
                    !.sound_design =
                        IF audio
                        THEN [files_count |-> 1, path |-> "04_audio",
                              brief |-> "audio_design_brief.md"]
                        ELSE @]
            /\ files' = files \cup
                 (IF audio THEN {"04_audio/audio_design_brief.md"} ELSE {})
            /\ dirs' = dirs \cup {"04_audio"}
            /\ Return("run_production")
            /\ UNCHANGED failure
    /\ UNCHANGED <<config, assembly, review_list, lease, envelope, db_stage, hitl>>

\* ------------------------------------------------------------- checkpoints
\* ApprovalFlag as it would be if the checkpoints shared one flag.
ApprovalFlag_shared(s) == "research_approved"

\* The approval flag a checkpoint stage assigns.
ApprovalFlag(s) ==
    CASE s = "checkpoint_research" -> "research_approved"
      [] s = "checkpoint_design" -> "design_math_approved"
      [] OTHER -> "mood_board_approved"

\* d[k] = v on a dict kept as a set of <<key, value>> pairs
DictSet(d, k, v) == {p \in d : p[1] # k} \cup {<<k, v>>}

DictHas(d, k) == \E p \in d : p[1] = k

DictGet(d, k) == (CHOOSE p \in d : p[1] = k)[2]

\* str.lower(), word by word
LowerWord(w) == IF w = "SKIP" THEN "skip" ELSE w

Lower(fb) == [i \in 1..Len(fb) |-> LowerWord(fb[i])]

\* RejectionEntry as it would be if the feedback were left out of the entry.
RejectionEntry_without_feedback(name, fb) == <<"HITL rejection at", name>>

\* f"HITL rejection at {name}: {feedback}"
RejectionEntry(name, fb) == <<"HITL rejection at", name>> \o fb

\* OnReviewFailure as it would be without the hook's except clause.
OnReviewFailure_raises == "raise"

\* What _run_adversarial_review does with an exception raised in its body,
\* the envelope call included: print it and return.
OnReviewFailure == "swallow"

\* ReviewEntries as they would be if the hook logged its failure.
ReviewEntries_logged(r) ==
    IF r.kind = "value" THEN <<>> ELSE <<<<"Adversarial review failed">>>>

\* The entries the hook adds to state.errors for the outcome r of its
\* envelope call: none, a failure is printed to the console only.
ReviewEntries(r) == <<>>

\* A checkpoint stage up to the review hook's envelope call.  built: whether
\* the review task could be built (the hook swallows the exception if not).
CheckpointBegin(s, approved, built) ==
    /\ stage = s
    /\ at = "begin"
    /\ UpdateStage(s)
    /\ IF ~approved
       THEN /\ Return(s)
            /\ UNCHANGED <<envelope, faults, failure>>
       ELSE IF built
       THEN /\ thread_start(s)
            /\ at' = "wait"
            /\ stage' = s
            /\ UNCHANGED <<faults, failure>>
       ELSE /\ Fault(1)
            /\ IF OnReviewFailure = "swallow"
               THEN /\ at' = "hitl"
                    /\ stage' = s
                    /\ UNCHANGED failure
               ELSE /\ stage' = "failed"
                    /\ at' = "begin"
                    /\ failure' = Some("error of build_review_task_description")
            /\ UNCHANGED envelope
    /\ UNCHANGED <<config, assembly, review_list, lease, state, files, dirs, hitl>>

checkpoint_research(built) ==
    CheckpointBegin("checkpoint_research", TRUE, built)

\* checkpoint_design as it would be without the approval check.
checkpoint_design_ungated(built) ==
    CheckpointBegin("checkpoint_design", TRUE, built)

checkpoint_design(built) ==
    CheckpointBegin("checkpoint_design", state.research_approved, built)

\* checkpoint_art as it would be without the approval check.
checkpoint_art_ungated(built) ==
    CheckpointBegin("checkpoint_art", TRUE, built)

checkpoint_art(built) ==
    CheckpointBegin("checkpoint_art", state.design_math_approved, built)

\* _run_adversarial_review after the envelope call: an exception is swallowed,
\* otherwise the review is saved unless the reviewer already saved it.
run_adversarial_review ==
    /\ stage \in CheckpointStages
    /\ at = "post"
    /\ files' = IF ret.kind = "raise" THEN files
                ELSE files \cup {AgentFile(stage)}
    /\ state' = [state EXCEPT !.errors = Extend(@, ReviewEntries(ret))]
    /\ IF ret.kind # "raise" \/ OnReviewFailure = "swallow"
       THEN /\ at' = "hitl"
            /\ UNCHANGED <<stage, failure>>
       ELSE Propagate
    /\ UNCHANGED <<config, assembly, review_list, lease, envelope, dirs, db_stage, faults, hitl>>

\* The entries the remote path appends for a decision and a feedback text.
WebEntries(name, approved, feedback) ==
    IF ~approved /\ feedback # <<>>
    THEN <<RejectionEntry(name, feedback)>> ELSE <<>>

\* The entries the prompt path appends for a decision and a feedback text.
CliEntries(name, approved, fb) ==
    IF ~approved /\ Lower(fb) # <<"skip">>
    THEN <<RejectionEntry(name, fb)>> ELSE <<>>

\* CliWrites as it would be if the prompt path recorded approvals only.
CliWrites_approvals_only(approved) == IF approved THEN <<approved>> ELSE <<>>

\* The values each path assigns to hitl_approvals[name], in order.
AutoWrites == <<TRUE>>

\* WebWrites as it would be if the remote path recorded an approval whatever
\* the decision.
WebWrites_always_true(approved) == <<TRUE>>

WebWrites(approved) == <<approved>>
CliWrites(approved) == <<approved>>

\* The approvals map after the assignments ws to hitl_approvals[name].
RECURSIVE Record(_, _, _)
Record(approvals, name, ws) ==
    IF ws = <<>> THEN approvals
    ELSE Record(DictSet(approvals, name, Head(ws)), name, Tail(ws))

\* hitl_checkpoint makes the assignments ws, appends entries to the error log
\* and returns returned; the checkpoint stage assigns the returned value to
\* its approval flag and returns.  answers, fb: what the prompt was answered
\* and the feedback text of a rejection; act: the action field of the
\* submitted review form.
Decide(path, ws, returned, entries, answers, fb, act) ==
    LET name == CheckpointName(stage) IN
    /\ state' = [state EXCEPT
                    !.hitl_approvals = Record(@, name, ws),
                    !.errors = Extend(@, entries),
                    ![ApprovalFlag(stage)] = returned]
    /\ hitl' = [hitl EXCEPT ![name] =
                    [@ EXCEPT !.written = @ \o ws,
                              !.returned = Append(@, returned),
                              !.answers = @ \o answers,
                              !.feedback = IF returned THEN <<>> ELSE fb,
                              !.action = act,
                              !.path = path]]
    /\ Return(stage)

\* AutoApprove as it would be if the global switch were ignored.
AutoApprove_flag_only(auto) == auto

\* if auto or not PipelineConfig.HITL_ENABLED
AutoApprove(auto) == auto \/ ~HITL_ENABLED

hitl_checkpoint_auto ==
    /\ stage \in CheckpointStages
    /\ at = "hitl"
    /\ AutoApprove(auto_mode)
    /\ Decide("auto", AutoWrites, TRUE, <<>>, <<>>, <<>>, None)
    /\ UNCHANGED <<config, assembly, review_list, lease, envelope, failure, files, dirs, db_stage, faults>>

\* if state.job_id: the remote channel is tried, and its call blocks.
hitl_checkpoint_web ==
    /\ stage \in CheckpointStages
    /\ at = "hitl"
    /\ ~AutoApprove(auto_mode)
    /\ state.job_id # ""
    /\ at' = "remote"
    /\ hitl' = [hitl EXCEPT ![CheckpointName(stage)].remote = @ + 1]
    /\ UNCHANGED <<stage, config, assembly, review_list, lease, state, envelope, failure, files, dirs,
                   db_stage, faults>>

\* The action fields a review form is submitted with: none, or a value.
ReviewActions ==
    {None, Some("approve"), Some("reject"), Some("Approve")}

\* api_submit_review as it would be if a form without an action field were
\* a rejection.
api_submit_review_no_default(action) ==
    action # None /\ action.some = "approve"

\* action = request.form.get("action", "approve");
\* approved = (action == "approve"): the decision handed to submit_review.
api_submit_review(action) ==
    LET a == IF action = None THEN "approve" ELSE action.some IN
    a = "approve"

\* The action fields the review page's two buttons submit.
PageActions == {Some("approve"), Some("reject")}

\* The reviewer submits the form with the given action and feedback;
\* web_hitl_checkpoint returns the recorded (approved, feedback).  A request
\* that does not come from the page's buttons counts as an irregularity.
web_hitl_returns(action, feedback) ==
    LET approved == api_submit_review(action) IN
    /\ stage \in CheckpointStages
    /\ at = "remote"
    /\ Fault(IF action \in PageActions THEN 0 ELSE 1)
    /\ Decide("remote", WebWrites(approved), approved,
              WebEntries(CheckpointName(stage), approved, feedback),
              <<>>, feedback, action)
    /\ UNCHANGED <<config, assembly, review_list, lease, envelope, failure, files, dirs, db_stage>>

\* OnRemoteFailure as it would be without the except clause.
OnRemoteFailure_raises == "raise"

\* Where hitl_checkpoint goes when the remote channel raises.
OnRemoteFailure == "cli"

\* The import, the file listing or web_hitl_checkpoint raises: except
\* Exception, fall through to the prompt.
web_hitl_raises ==
    /\ stage \in CheckpointStages
    /\ at = "remote"
    /\ Fault(1)
    /\ IF OnRemoteFailure = "cli"
       THEN /\ at' = "cli"
            /\ UNCHANGED <<stage, failure>>
       ELSE /\ stage' = "failed"
            /\ at' = "begin"
            /\ failure' = Some("error of web_hitl_checkpoint")
    /\ hitl' = [hitl EXCEPT ![CheckpointName(stage)].path = "remote_failed"]
    /\ UNCHANGED <<config, assembly, review_list, lease, state, envelope, files, dirs, db_stage>>

\* CLI fallback: Confirm.ask, then Prompt.ask on a rejection
hitl_checkpoint_cli(approved, fb) ==
    /\ stage \in CheckpointStages
    /\ \/ at = "cli"
       \/ /\ at = "hitl"
          /\ ~AutoApprove(auto_mode)
          /\ state.job_id = ""
    /\ Decide(IF hitl[CheckpointName(stage)].path = "remote_failed"
              THEN "remote_failed_cli" ELSE "cli",
              CliWrites(approved), approved,
              CliEntries(CheckpointName(stage), approved, fb),
              <<approved>>, fb, None)
    /\ UNCHANGED <<config, assembly, review_list, lease, envelope, failure, files, dirs, db_stage, faults>>

\* ---------------------------------------------------------------- assembly
\* Where assemble_package takes each input of the PDFs from, given the state
\* st, the files fs and the structured compliance report json: "disk",
\* "state", or "none" when it has neither.
\* research_data = self.state.market_research or {}; the file is read only
\* if that is empty.
research_source(st, fs) ==
    IF st.market_research # None THEN "state"
    ELSE IF "01_research/market_research.json" \in fs THEN "disk"
    ELSE "none"

\* research_data["report"]: the saved report if there is one.
report_source(st, fs) ==
    IF AgentFile("run_research") \in fs THEN "disk"
    ELSE IF st.market_research # None THEN "state"
    ELSE "none"

\* gdd_text: 02_design/gdd.md, else state.gdd["output"].
gdd_source(st, fs) ==
    IF AgentFile("run_design_and_math") \in fs THEN "disk"
    ELSE IF st.gdd # None THEN "state"
    ELSE "none"

\* math_data: 03_math/simulation_results.json, else
\* state.math_model["results"].
math_source(st, fs) ==
    IF "03_math/simulation_results.json" \in fs THEN "disk"
    ELSE IF st.math_model # None /\ "results" \in DOMAIN st.math_model
    THEN "state"
    ELSE "none"

\* compliance_data: the parsed report if it parses, else
\* state.compliance["results"].
compliance_source(st, json) ==
    IF json \in {"object", "array"} THEN "disk"
    ELSE IF st.compliance # None /\ "results" \in DOMAIN st.compliance
    THEN "state"
    ELSE "none"

\* compliance_data["_raw_text"] = comp_text raises TypeError on a parsed
\* report that is no dict; the except clauses around json.loads catch
\* JSONDecodeError and ValueError only.
collection_raises(json) == json = "array"

\* (od / "01_research").glob("adversarial_review_*.md")
ReviewGlob(fs) ==
    fs \cap {"01_research/adversarial_review_" \o n \o ".md" :
                n \in CheckpointNames}

\* The keyword arguments of generate_full_package.
PdfInputs(st, fs, json) ==
    [research |-> research_source(st, fs),
     report |-> report_source(st, fs),
     gdd |-> gdd_source(st, fs),
     math |-> math_source(st, fs),
     compliance |-> compliance_source(st, json),
     reviews |-> ReviewGlob(fs)]

\* proto, pdf: whether the prototype and generate_full_package succeed.  The
\* data for the PDFs is collected first, in the order GDD, math, compliance,
\* research, reviews, audio: research_data and audio_data_for_pdf are the
\* dicts the state holds, and are assigned to in place.  An exception while
\* collecting ends the PDF part.
assemble_package(proto, pdf) ==
    LET collected == ~collection_raises(comp_json)
        made == collected /\ pdf IN
    /\ stage = "assemble_package"
    /\ at = "begin"
    /\ UpdateStage("assemble_package")
    /\ Fault(IF state.mood_board_approved
             THEN (IF proto THEN 0 ELSE 1)
                  + (IF collected /\ ~pdf THEN 1 ELSE 0)
             ELSE 0)
    /\ IF ~state.mood_board_approved
       THEN UNCHANGED <<state, files, pdf_inputs>>
       ELSE /\ state' =
                 [state EXCEPT
                    !.prototype_path = IF proto THEN "07_prototype/index.html"
                                       ELSE @,
                    !.market_research =
                        IF collected /\ @ # None
                           /\ AgentFile("run_research") \in files
                        THEN [@ EXCEPT !.report = "market_report.md"] ELSE @,
                    !.sound_design =
                        IF collected /\ @ # None /\ "path" \notin DOMAIN @
                        THEN [path |-> "04_audio"] @@ @ ELSE @,
                    !.pdf_files = IF made THEN <<"06_pdf/package.pdf">> ELSE @,
                    !.errors =
                        IF made THEN @
                        ELSE Extend(@, <<<<"PDF generation failed:">>>>),
                    !.completed_at = "now"]
            /\ pdf_inputs' = IF collected
                             THEN PdfInputs(state, files, comp_json)
                             ELSE pdf_inputs
            /\ files' = files \cup {"PACKAGE_MANIFEST.json"}
                 \cup (IF proto THEN {"07_prototype/index.html"} ELSE {})
                 \cup (IF made THEN {"06_pdf/package.pdf"} ELSE {})
    /\ Return("assemble_package")
    /\ UNCHANGED <<config, comp_json, review_list, lease, envelope, failure,
                   dirs, hitl>>

\* A call the stage method makes itself, outside the envelope, never returns:
\* a tool of run_preflight, the sound-design tool of run_production, the
\* prototype tool or the PDF generator of assemble_package.  The stage label
\* is written before the call.
direct_call_hangs ==
    /\ \/ stage = "run_preflight" /\ at = "begin"
       \/ stage = "run_production" /\ at = "post" /\ ret.kind # "raise"
       \/ stage = "assemble_package" /\ at = "begin"
             /\ state.mood_board_approved
    /\ Fault(1)
    /\ UpdateStage(stage)
    /\ at' = "hung"
    /\ UNCHANGED <<stage, config, assembly, review_list, lease, state, envelope, failure, files, dirs,
                   hitl>>

\* --------------------------------------------------------------- job store
\* api_launch_pipeline: INSERT the job's row with status "queued" (the other
\* columns take their defaults) and spawn the worker.
api_launch_pipeline ==
    /\ stage = "initialize"
    /\ at = "submit"
    /\ db_status' = "queued"
    /\ db_stage' = "Initializing"
    /\ db_error' = None
    /\ at' = "spawned"
    /\ UNCHANGED <<stage, config, assembly, review_list, state, envelope, failure, files, dirs,
                   faults, hitl, stale, selected>>

\* The worker marks its job running and starts the flow.
worker_start ==
    /\ stage = "initialize"
    /\ at = "spawned"
    /\ db_status' = IF db_ok THEN "running" ELSE db_status
    /\ at' = "begin"
    /\ UNCHANGED <<stage, config, assembly, review_list, state, envelope, failure, files, dirs,
                   db_stage, faults, hitl, db_error, stale, selected>>

\* The flow has ended: the worker records complete, or failed with the
\* exception that left the flow, and exits.
worker_exit ==
    /\ stage \in {"done", "failed"}
    /\ at = "begin"
    /\ state.job_id # ""
    /\ db_status' = IF ~db_ok THEN db_status
                    ELSE IF stage = "failed" THEN "failed" ELSE "complete"
    /\ db_error' = IF db_ok /\ stage = "failed" THEN failure ELSE db_error
    /\ at' = "exit"
    /\ UNCHANGED <<stage, config, assembly, review_list, state, envelope, failure, files, dirs,
                   db_stage, faults, hitl, stale, selected>>

\* Where the job is when the clock passes created_at + 75 minutes: waiting
\* for its worker, in a join, at a reviewer or a prompt, in a call that
\* never returns, or ended.
time_passes ==
    /\ db_status # "none"
    /\ at \in {"spawned", "wait", "remote", "cli", "hung", "exit"}
    /\ ~stale
    /\ stale' = TRUE
    /\ UNCHANGED <<stage, at, config, assembly, review_list, state, envelope, failure, files, dirs,
                   db_stage, faults, hitl, db_status, db_error, selected>>

StaleMinutes == 75

\* The error the sweep records.
TimedOut == "Timed out -- exceeded maximum pipeline duration"

\* Selects as it would be if the sweep did not look at the creation time.
Selects_any_age(status, old) == status \in {"running", "queued"}

\* WHERE status IN ('running','queued') AND created_at < datetime('now',
\* '-75 minutes')
Selects(status, old) == status \in {"running", "queued"} /\ old

\* _recover_stale_jobs up to fetchall(), at a start of the web process while
\* the job's row is there.  ok: whether the statements succeed; an exception
\* is swallowed.
recover_stale_jobs_select(ok) ==
    /\ db_status # "none"
    /\ selected = "idle"
    /\ Fault(1)
    /\ selected' = IF ~ok THEN "idle"
                   ELSE IF Selects(db_status, stale) THEN "stale" ELSE "empty"
    /\ UNCHANGED <<stage, at, config, assembly, review_list, state, envelope, failure, files, dirs,
                   db_stage, hitl, db_status, db_error, stale>>

\* _recover_stale_jobs after fetchall(): UPDATE each fetched row by its id,
\* commit.
recover_stale_jobs_update(ok) ==
    /\ selected # "idle"
    /\ Fault(IF ok THEN 0 ELSE 1)
    /\ selected' = "idle"
    /\ IF ok /\ selected = "stale"
       THEN /\ db_status' = "failed"
            /\ db_error' = Some(TimedOut)
       ELSE UNCHANGED <<db_status, db_error>>
    /\ UNCHANGED <<stage, at, config, assembly, review_list, state, envelope, failure, files, dirs,
                   db_stage, hitl, stale>>

\* -------------------------------------------------------------------- flow
Next ==
    \/ initialize
    \/ \E ok \in SUBSET PreflightSteps, b \in Blockers : run_preflight(ok, b)
    \/ run_research_begin
    \/ run_research
    \/ \E built \in BOOLEAN : checkpoint_research(built)
    \/ run_design_and_math_begin
    \/ run_design_and_math
    \/ \E built \in BOOLEAN : checkpoint_design(built)
    \/ run_mood_boards_begin
    \/ run_mood_boards
    \/ \E built \in BOOLEAN : checkpoint_art(built)
    \/ run_production_begin
    \/ \E audio \in BOOLEAN : run_production(audio)
    \/ \E proto, pdf \in BOOLEAN : assemble_package(proto, pdf)
    \/ run_adversarial_review
    \/ hitl_checkpoint_auto
    \/ hitl_checkpoint_web
    \/ \E act \in ReviewActions, fb \in Feedbacks : web_hitl_returns(act, fb)
    \/ web_hitl_raises
    \/ \E a \in BOOLEAN, fb \in Feedbacks : hitl_checkpoint_cli(a, fb)
    \/ direct_call_hangs
    \/ thread_join_tick
    \/ envelope_timeout
    \/ envelope_joined
    \/ \E t \in Threads : crew_writes_file(t)
    \/ \E shape \in JsonShapes : crew_writes_json(shape)
    \/ \E t \in Threads : run_returns(t)
    \/ \E t \in Threads : run_raises(t)
    \/ api_launch_pipeline
    \/ worker_start
    \/ worker_exit
    \/ time_passes
    \/ \E ok \in BOOLEAN : recover_stale_jobs_select(ok)
    \/ \E ok \in BOOLEAN : recover_stale_jobs_update(ok)

Spec == Init /\ [][Next]_vars

\* ------------------------------------------------- the reviewer's file list
\* hitl_checkpoint lists the files under the output root for the review
\* channel.  The paths are numbered in the order sorted() puts them; listing
\* holds them in the order they were written.
ReviewFilesMax == 20

\* The number of paths under the output root.
MaxListing == 22

Paths == 1..MaxListing

Range(q) == {q[i] : i \in DOMAIN q}

\* sorted(out.rglob("*")), the files of it
RECURSIVE SortedPaths(_)
SortedPaths(S) ==
    IF S = {} THEN <<>>
    ELSE LET m == CHOOSE x \in S : \A y \in S : x <= y
         IN <<m>> \o SortedPaths(S \ {m})

\* files[-20:]
LastFiles(q) ==
    SubSeq(q, IF Len(q) > ReviewFilesMax THEN Len(q) - ReviewFilesMax + 1
              ELSE 1, Len(q))

\* Everything but the listing.
flow ==
    <<stage, at, config, lease, envelope, state, failure, files, dirs,
      db_stage, faults, hitl, assembly>>

\* A stage or a crew writes the file with path p.  The files are written in
\* the order of their paths, but for one that is written ahead of its place.
file_written(p) ==
    /\ shown = None
    /\ p \in Paths \ Range(listing)
    /\ \/ \A x \in Paths \ Range(listing) : p <= x
       \/ listing = [i \in 1..Len(listing) |-> i]
    /\ listing' = Append(listing, p)
    /\ UNCHANGED <<flow, shown>>

\* hitl_checkpoint, remote mode: the list handed to web_hitl_checkpoint.
files_listed ==
    /\ shown = None
    /\ shown' = Some(LastFiles(SortedPaths(Range(listing))))
    /\ UNCHANGED <<flow, listing>>

ListingInit ==
    /\ Init
    /\ ~auto_mode
    /\ HITL_ENABLED
    /\ state.job_id # ""

ListingNext ==
    \/ \E p \in Paths : file_written(p)
    \/ files_listed

\* The file list of a checkpoint in remote mode, over the output roots a job
\* can have.
ListingSpec == ListingInit /\ [][ListingNext]_vars

\* The steps of the flow's own thread and of the worker around it: the stage
\* methods, the envelope's join, and the checkpoint without a human.
Driver ==
    \/ initialize
    \/ \E ok \in SUBSET PreflightSteps, b \in Blockers : run_preflight(ok, b)
    \/ run_research_begin
    \/ run_research
    \/ \E built \in BOOLEAN : checkpoint_research(built)
    \/ run_design_and_math_begin
    \/ run_design_and_math
    \/ \E built \in BOOLEAN : checkpoint_design(built)
    \/ run_mood_boards_begin
    \/ run_mood_boards
    \/ \E built \in BOOLEAN : checkpoint_art(built)
    \/ run_production_begin
    \/ \E audio \in BOOLEAN : run_production(audio)
    \/ \E proto, pdf \in BOOLEAN : assemble_package(proto, pdf)
    \/ run_adversarial_review
    \/ hitl_checkpoint_auto
    \/ thread_join_tick
    \/ envelope_timeout
    \/ envelope_joined
    \/ api_launch_pipeline
    \/ worker_start
    \/ worker_exit

\* The flow's thread runs whenever it is not blocked: in a join the clock
\* advances until the thread ends or the timeout is reached.  Nothing is
\* assumed of the crews, the tools, the reviewers or the sweep.
FairSpec == Spec /\ WF_vars(Driver)

\* ------------------------------------------------------------ properties
\* The envelope call the driver is in belongs to the stage method it is in.
Timeout == STAGE_TIMEOUTS[EnvelopeName(stage)]

\* C1: for every stage, the driver never waits in the envelope beyond the
\* stage's timeout, and when the timeout elapses with the work unit
\* unfinished the envelope returns the timeout signal None at that point.
C1_TimeoutReturnsNone ==
    /\ at = "wait" => elapsed < Timeout
    /\ at = "post" /\ ret.kind = "timeout" =>
           ret.val = "None" /\ elapsed = Timeout
    /\ at = "post" /\ elapsed >= Timeout => ret.kind = "timeout"

\* The envelope has returned None and the work unit has still not finished.
C1_Witness ==
    /\ at = "post"
    /\ ret.kind = "timeout"
    /\ thr[stage] = "alive"
    /\ stage = "run_production"

\* C2: when the work unit has raised before the timeout, the envelope call
\* ends by raising that same error and hands back no result.
C2_ErrorReraised ==
    [][(at = "wait" /\ error_holder # None /\ at' # "wait") =>
          (ret'.kind = "raise" /\ ret'.val = CrewError(stage))]_vars

\* The envelope has raised the crew's error to a work stage.
C2_Witness ==
    /\ at = "post"
    /\ ret.kind = "raise"
    /\ ret.val = CrewError("run_design_and_math")

\* C3: every envelope call starts its work unit exactly once, and a call
\* whose work unit completes in time returns exactly the work unit's result.
C3_OneKickoffExactResult ==
    /\ \A t \in Threads :
          /\ kickoffs[t] <= 1
          /\ thr[t] # "none" <=> kickoffs[t] = 1
    /\ at \in {"wait", "post"} => kickoffs[stage] = 1
    /\ at = "post" /\ ret.kind = "value" => ret.val = CrewResult(stage)

\* A work unit has completed in time and its envelope call has returned.
C3_Witness ==
    /\ at = "post"
    /\ ret.kind = "value"
    /\ stage = "run_mood_boards"
    /\ kickoffs["run_research"] = 1

\* C4: if the research work unit is still running when the research timeout
\* elapses, market_research is still None when checkpoint_research begins.
C4_ResearchUnsetAfterTimeout ==
    (stage = "checkpoint_research" /\ at = "begin" /\ ret.kind = "timeout")
        => state.market_research = None

IsRejectionEntry(e) == Len(e) > 0 /\ e[1] = "HITL rejection at"

\* C6: with auto=True or with approvals globally disabled, hitl_checkpoint
\* returns True, consults neither the remote channel nor the prompt, assigns
\* approvals[name] = True exactly once and adds nothing to state.errors.
C6_AutoApproves ==
    (auto_mode \/ ~HITL_ENABLED) =>
        /\ at \notin {"remote", "cli"}
        /\ \A i \in 1..Len(state.errors) : ~IsRejectionEntry(state.errors[i])
        /\ \A n \in CheckpointNames :
              /\ hitl[n].remote = 0
              /\ hitl[n].answers = <<>>
              /\ \/ /\ hitl[n].path = "none"
                    /\ hitl[n].written = <<>>
                    /\ ~DictHas(state.hitl_approvals, n)
                 \/ /\ hitl[n].path = "auto"
                    /\ hitl[n].written = <<TRUE>>
                    /\ hitl[n].returned = <<TRUE>>
                    /\ DictGet(state.hitl_approvals, n) = TRUE

\* All three checkpoints were auto-approved with approvals globally disabled.
C6_Witness ==
    /\ ~HITL_ENABLED
    /\ ~auto_mode
    /\ \A n \in CheckpointNames : hitl[n].path = "auto"

\* C7: every hitl_checkpoint call that returns has assigned approvals[name]
\* exactly once, and the value assigned is the value returned, on the auto,
\* remote, synchronous and remote-failed-then-synchronous paths.
C7_RecordedOnce ==
    \A n \in CheckpointNames :
        IF hitl[n].path \in {"auto", "remote", "cli", "remote_failed_cli"}
        THEN /\ Len(hitl[n].returned) = 1
             /\ hitl[n].written = hitl[n].returned
             /\ DictHas(state.hitl_approvals, n)
             /\ DictGet(state.hitl_approvals, n) = hitl[n].returned[1]
        ELSE /\ hitl[n].returned = <<>>
             /\ hitl[n].written = <<>>
             /\ ~DictHas(state.hitl_approvals, n)

\* A rejection at the prompt, after the remote channel failed, was recorded.
C7_Witness ==
    /\ hitl["post_design_math"].path = "remote_failed_cli"
    /\ hitl["post_design_math"].returned = <<FALSE>>
    /\ hitl["post_research"].path = "remote"

Contains(e, F) ==
    \E k \in 0..(Len(e) - Len(F)) : SubSeq(e, k + 1, k + Len(F)) = F

\* The error log has an entry that contains the feedback of checkpoint n.
FeedbackLogged(n) ==
    \E i \in 1..Len(state.errors) :
        Contains(state.errors[i], hitl[n].feedback)

\* C9 as stated: whenever a checkpoint is rejected with non-empty feedback
\* F, in remote or in synchronous mode, state.errors has an entry with F.
C9_FeedbackAlwaysLogged ==
    \A n \in CheckpointNames :
        (hitl[n].returned = <<FALSE>> /\ hitl[n].feedback # <<>>)
            => FeedbackLogged(n)

\* C9 amended: whenever a checkpoint is rejected with non-empty feedback F,
\* in remote mode, or in synchronous mode with F other than the word "skip"
\* in any letter case, state.errors has an entry that contains F.
C9_FeedbackLoggedUnlessSkip ==
    \A n \in CheckpointNames :
        (/\ hitl[n].returned = <<FALSE>>
         /\ hitl[n].feedback # <<>>
         /\ \/ hitl[n].path = "remote"
            \/ Lower(hitl[n].feedback) # <<"skip">>)
            => FeedbackLogged(n)

\* The art direction was rejected at the prompt with "bad palette".
C9_Witness ==
    /\ hitl["post_art_review"].path = "cli"
    /\ hitl["post_art_review"].returned = <<FALSE>>
    /\ hitl["post_art_review"].feedback = <<"bad", "palette">>

\* hitl_checkpoint returned False at checkpoint n.
Rejected(n) == hitl[n].returned = <<FALSE>>

\* C10: after a rejection no gated stage writes a result field: rejection at
\* post_research leaves gdd, math_model, mood_board, art_assets, compliance
\* unset; at post_design_math mood_board, art_assets, compliance; at
\* post_art_review art_assets, compliance, sound_design and pdf_files.
C10_RejectionLeavesFieldsUnset ==
    /\ Rejected("post_research") =>
          /\ state.gdd = None
          /\ state.math_model = None
          /\ state.mood_board = None
          /\ state.art_assets = None
          /\ state.compliance = None
    /\ Rejected("post_design_math") =>
          /\ state.mood_board = None
          /\ state.art_assets = None
          /\ state.compliance = None
    /\ Rejected("post_art_review") =>
          /\ state.art_assets = None
          /\ state.compliance = None
          /\ state.sound_design = None
          /\ state.pdf_files = <<>>

\* The run has ended after a rejection of the art direction.
C10_Witness ==
    /\ Rejected("post_art_review")
    /\ stage = "done"

\* C11: a rejection at any of the three checkpoints raises nothing out of
\* the flow: from then on the flow has not failed, no later stage starts its
\* work unit, and when the run ends the worker of a job whose store takes
\* its writes records the status complete.
C11_RejectionEndsComplete ==
    [][\A s \in CheckpointStages :
          (hitl'[CheckpointName(s)].returned = <<FALSE>>) =>
              /\ stage' # "failed"
              /\ failure' = None
              /\ \A t \in Threads :
                    IndexOf(t) > IndexOf(s) => kickoffs'[t] = 0
              /\ (at # "exit" /\ at' = "exit" /\ db_ok) =>
                    db_status' = "complete"]_vars

\* The design was rejected, the run has ended and the job is complete.
C11_Witness ==
    /\ Rejected("post_design_math")
    /\ stage = "done"
    /\ at = "exit"
    /\ db_status = "complete"
    /\ kickoffs["run_mood_boards"] = 0

\* The stages that begin with an approval check, and the flag each checks.
GatedStages == {FlowOrder[i] : i \in 5..Len(FlowOrder)}

GateFlag(s) ==
    CASE s \in {"run_design_and_math", "checkpoint_design"}
             -> "research_approved"
      [] s \in {"run_mood_boards", "checkpoint_art"} -> "design_math_approved"
      [] OTHER -> "mood_board_approved"

\* C12: a gated stage whose approval flag is false returns without any
\* effect: pipeline state, files and the job's row, its current-stage label
\* included, are as they were before.
C12_GatedStageNoEffect ==
    [][(/\ stage \in GatedStages
        /\ at = "begin"
        /\ ~state[GateFlag(stage)]
        /\ stage' # stage) =>
          UNCHANGED <<state, files, dirs, hitl, db_stage, db_status,
                      db_error>>]_vars

\* C13: once approvals[name] is recorded, no later step changes the entry or
\* the checkpoint's approval flag, and no checkpoint is decided twice.
C13_DecidedOnce ==
    [][\A s \in CheckpointStages :
          LET n == CheckpointName(s) IN
          /\ Len(hitl'[n].returned) <= 1
          /\ DictHas(state.hitl_approvals, n) =>
                /\ DictHas(state'.hitl_approvals, n)
                /\ DictGet(state'.hitl_approvals, n)
                      = DictGet(state.hitl_approvals, n)
                /\ state'[ApprovalFlag(s)] = state[ApprovalFlag(s)]]_vars

\* Research was approved, the design rejected, and the run has ended.
C13_Witness ==
    /\ DictHas(state.hitl_approvals, "post_research")
    /\ DictGet(state.hitl_approvals, "post_research") = TRUE
    /\ DictHas(state.hitl_approvals, "post_design_math")
    /\ DictGet(state.hitl_approvals, "post_design_math") = FALSE
    /\ state.research_approved
    /\ stage = "done"

\* The result fields of the pipeline state.
ResultFields ==
    {"market_research", "gdd", "math_model", "mood_board", "art_assets",
     "compliance", "sound_design"}

\* C14: once a stage has set its result field, no later step changes the
\* field or the document it holds.
C14_ResultFieldsReadOnly ==
    [][\A f \in ResultFields :
          state[f] # None => state'[f] = state[f]]_vars

\* e is a prefix of f
IsPrefix(e, f) == Len(e) <= Len(f) /\ SubSeq(f, 1, Len(e)) = e

\* C15: state.errors is append-only: every step leaves the entries it had
\* in place and in order, and adds new ones only at the end.
C15_ErrorsAppendOnly ==
    [][IsPrefix(state.errors, state'.errors)]_vars

\* A blocker, then a rejection, then nothing more: the run has ended.
C15_Witness ==
    /\ Len(state.errors) = 2
    /\ state.errors[1] = <<"blocker">>
    /\ IsRejectionEntry(state.errors[2])
    /\ stage = "done"

\* The status changes the claim allows, the row's creation included.
StatusSteps ==
    {<<"none", "queued">>, <<"queued", "running">>,
     <<"running", "complete">>, <<"running", "failed">>}

\* C16: the status of a job changes only along queued -> running ->
\* {complete, failed}.
C16_StatusTransitions ==
    [][db_status' # db_status => <<db_status, db_status'>> \in StatusSteps]_vars

\* C17: one invocation of the recovery sweep whose statements succeed: the
\* rows it fetches are the running or queued rows older than the threshold,
\* each of them is failed with the duration error afterwards, and a row
\* younger than the threshold keeps its status, stage label and error.
C17_SweepFailsStaleOnly ==
    [][/\ (selected = "idle" /\ selected' # "idle") =>
            (selected' = "stale"
                <=> (stale /\ db_status \in {"running", "queued"}))
       /\ (selected # "idle" /\ selected' = "idle" /\ faults' = faults) =>
            /\ selected = "stale" =>
                  /\ db_status' = "failed"
                  /\ db_error' = Some(TimedOut)
            /\ ~stale => UNCHANGED <<db_status, db_stage, db_error>>]_vars

\* A sweep has failed the job while its worker was still running it.
C17_Witness ==
    /\ db_status = "failed"
    /\ db_error = Some(TimedOut)
    /\ selected = "idle"
    /\ ProcessAlive
    /\ at = "wait"

\* The timeouts of the envelope calls the job has made up to the i-th stage.
RECURSIVE TimeoutsUpTo(_)
TimeoutsUpTo(i) ==
    IF i = 0 THEN 0
    ELSE TimeoutsUpTo(i - 1)
         + (IF FlowOrder[i] \in Threads /\ kickoffs[FlowOrder[i]] > 0
            THEN StageTimeout(EnvelopeName(FlowOrder[i])) ELSE 0)

TimeoutsAccrued == TimeoutsUpTo(Len(FlowOrder))

\* C18: the staleness threshold is larger than the sum of the stage timeouts
\* a job can accrue, review hooks included: a job that waits in an envelope
\* call, every call so far within its timeout, is younger than the threshold.
C18_ThresholdCoversTimeouts ==
    at = "wait" => TimeoutsAccrued < StaleMinutes * 60

\* C19: creating the skeleton again on the output root of a run, with the
\* files the run has written, raises nothing and leaves every directory as
\* it is; and the whole skeleton exists once initialize has returned.
C19_SkeletonIdempotent ==
    stage # "initialize" =>
        /\ Skeleton \subseteq dirs
        /\ ~make_dirs(dirs, files, 1).raised
        /\ make_dirs(dirs, files, 1).dirs = dirs

\* The output root holds the skeleton and files of the research stage.
C19_Witness ==
    /\ Skeleton \subseteq dirs
    /\ AgentFile("run_research") \in files
    /\ "01_research/market_research.json" \in files
    /\ stage = "checkpoint_research"

\* C20: the output root is a function of the job identifier alone:
\* initializing the job again, at whatever time, yields the root it has.
C20_OutputRootFromJobId ==
    stage # "initialize" =>
        \A ts \in Timestamps : output_root(Theme, ts) = state.output_dir

\* The job identifiers api_launch_pipeline hands out to two submissions.
JobIds == {"job-1", "job-2"}

\* The output root initialize computes in the worker of job job_id, started
\* with theme at the time ts: the job identifier takes no part in it.
output_dir_of(job_id, theme, ts) == output_root(theme, ts)

\* C21: two distinct jobs never share an output directory: a job started by
\* another worker with the same theme at the same time gets a root other
\* than this job's.
C21_DistinctJobsDistinctDirs ==
    (stage # "initialize" /\ state.job_id # "") =>
        \A j \in JobIds \ {state.job_id} :
            output_dir_of(j, Theme, clock) # state.output_dir

\* C22: _update_stage_db never raises: a run whose store takes no writes goes
\* on as it would and fails of nothing but a work unit's exception, the stage
\* label in the store stays as it was, and a run without a job identifier
\* leaves the store untouched.
C22_StageLabelWriteSwallowed ==
    /\ state.job_id = "" => (db_stage = "Initializing" /\ db_status = "none")
    /\ ~db_ok => db_stage = "Initializing"
    /\ failure # None => \E t \in WorkStages : failure = Some(CrewError(t))

\* A run whose every stage-label write failed has written its manifest.
C22_Witness ==
    /\ ~db_ok
    /\ state.job_id # ""
    /\ stage = "done"
    /\ "PACKAGE_MANIFEST.json" \in files
    /\ db_stage = "Initializing"

\* The result fields a work stage assigns after its envelope call.
WorkFields(t) ==
    CASE t = "run_research" -> {"market_research"}
      [] t = "run_design_and_math" -> {"gdd", "math_model"}
      [] t = "run_mood_boards" -> {"mood_board"}
      [] OTHER -> {"art_assets", "compliance", "sound_design"}

\* C23: an exception of a work stage's work unit that reaches the envelope
\* before the timeout leaves the stage and the flow: the flow has failed with
\* it, the stage's result fields are unset and no later stage starts.
C23_WorkUnitErrorPropagates ==
    [][/\ (/\ stage \in WorkStages
           /\ at = "post"
           /\ ret.kind = "raise"
           /\ at' # at) =>
              /\ stage' = "failed"
              /\ failure' = Some(ret.val)
       /\ \A t \in WorkStages :
             failure' = Some(CrewError(t)) =>
                /\ stage' = "failed"
                /\ \A f \in WorkFields(t) : state'[f] = None
                /\ \A u \in Threads :
                      IndexOf(u) > IndexOf(t) => kickoffs'[u] = 0
                /\ "PACKAGE_MANIFEST.json" \notin files']_vars

\* The mood-board crew raised after research and design were approved.
C23_Witness ==
    /\ failure = Some(CrewError("run_mood_boards"))
    /\ stage = "failed"
    /\ state.design_math_approved
    /\ state.gdd # None
    /\ state.mood_board = None

\* C24: every run that ends without an exception out of a stage has written
\* the completion manifest, a run cut short by a rejection included.
C24_CompleteRunHasManifest ==
    (stage = "done" /\ failure = None) => "PACKAGE_MANIFEST.json" \in files

\* C25: a work unit is running after its stage only if the stage's envelope
\* call timed out: a call that did not time out leaves a thread that has
\* ended and stays so, a thread starts in its own stage only, and an artifact
\* of stage t written while the flow is in another stage is written by a
\* thread that is still running.
C25_WritesBeforeNextStage ==
    [][\A t \in Threads :
          /\ (stage = t /\ stage' # t /\ thr'[t] = "alive") =>
                ret.kind = "timeout"
          /\ thr[t] = "dead" => thr'[t] = "dead"
          /\ (thr[t] # "alive" /\ thr'[t] = "alive") =>
                (stage' = t /\ at' = "wait")
          /\ (stage # t /\ AgentFile(t) \in files' \ files) =>
                thr[t] = "alive"]_vars

\* Research timed out with no report saved; the report was written while the
\* flow was at the research checkpoint.
C25_Witness ==
    /\ stage = "checkpoint_research"
    /\ state.market_research # None
    /\ state.market_research.report = "None"
    /\ AgentFile("run_research") \in files

\* C26: the stage bodies start in the order of the @listen chain, each at
\* most once, and one starts only when the one before it has returned: the
\* flow moves from a stage to the next one in the order, or out of the flow,
\* never out of a join or a call that has not returned, and no work unit is
\* started twice.
C26_StagesInOrder ==
    [][/\ \A t \in Threads : kickoffs'[t] <= 1
       /\ stage' # stage =>
             /\ at \notin {"wait", "hung"}
             /\ at' = "begin"
             /\ \E i \in 1..Len(FlowOrder) :
                   /\ stage = FlowOrder[i]
                   /\ \/ stage' = "failed"
                      \/ i = Len(FlowOrder) /\ stage' = "done"
                      \/ i < Len(FlowOrder) /\ stage' = FlowOrder[i + 1]]_vars

\* Every stage has run, each work unit started once.
C26_Witness ==
    /\ stage = "done"
    /\ \A t \in Threads : kickoffs[t] = 1
    /\ "PACKAGE_MANIFEST.json" \in files
    /\ state.art_assets # None

\* A join whose timeout is due in a run that has used up MaxFaults: the model
\* follows such a run no further.
TimeoutOverBound ==
    /\ at = "wait"
    /\ thr[stage] = "alive"
    /\ elapsed + TickSeconds >= StageTimeout(EnvelopeName(stage))
    /\ faults = MaxFaults

\* C27: with auto-approval and external calls that may hang but never raise,
\* every run reaches the end of assemble_package.
C27_RunReachesEnd ==
    (auto_mode /\ [](failure = None /\ ~TimeoutOverBound)) =>
        <>(stage = "done")

\* The driver is in a checkpoint stage before its approval request: at the
\* stage's begin or in the review hook.
BeforeRequest ==
    /\ stage \in CheckpointStages
    /\ at \in {"begin", "wait", "post"}

\* C28: a failure of the review hook is never fatal: whether the review
\* cannot be built, its work unit raises or times out, the hook returns, the
\* flow has not failed, and the next thing the checkpoint does is its
\* approval request; a checkpoint leaves its stage before the request only
\* by the return of a closed gate.
C28_ReviewFailureNotFatal ==
    [][(BeforeRequest /\ (at' # at \/ stage' # stage)) =>
          /\ failure' = None
          /\ stage' # "failed"
          /\ stage' # stage => (at = "begin" /\ kickoffs' = kickoffs)
          /\ (stage' = stage /\ at = "begin") => at' \in {"wait", "hitl"}
          /\ at = "wait" => (stage' = stage /\ at' = "post")
          /\ at = "post" => (stage' = stage /\ at' = "hitl")]_vars

\* The reviewer of the research raised; the checkpoint was decided all the
\* same and the design stage is about to start.
C28_Witness ==
    /\ stage = "run_design_and_math"
    /\ at = "begin"
    /\ ret.kind = "raise"
    /\ ret.val = CrewError("checkpoint_research")
    /\ hitl["post_research"].returned = <<TRUE>>
    /\ failure = None

\* C29: the review hook leaves every field of the pipeline state as it was:
\* no step taken while a checkpoint is before its approval request changes
\* the state, whether the review succeeds, fails or times out.
C29_ReviewLeavesState ==
    [][BeforeRequest => state' = state]_vars

\* The reviewer of the art direction timed out; the approval request is next.
C29_Witness ==
    /\ stage = "checkpoint_art"
    /\ at = "hitl"
    /\ ret.kind = "timeout"
    /\ state.mood_board # None
    /\ state.errors = <<>>

\* The result fields the sub-steps of run_preflight assign.
PreflightFields == {"trend_radar", "jurisdiction_constraints", "patent_scan"}

\* C30: an exception in a sub-step of run_preflight is swallowed: the stage
\* returns, the flow has not failed, run_research is the stage to start, and
\* no more results are unset than sub-steps have raised.  (A sub-step that
\* never returns leaves the flow in the stage.)
C30_PreflightBestEffort ==
    [][(stage = "run_preflight" /\ at = "begin"
            /\ (at' # at \/ stage' # stage)) =>
          \/ stage' = stage /\ at' = "hung"
          \/ /\ stage' = "run_research"
             /\ at' = "begin"
             /\ failure' = None
             /\ Cardinality({f \in PreflightFields : state'[f] = None})
                   <= faults' - faults]_vars

\* The trend radar raised; the jurisdiction check and the patent scan ran
\* and the research crew was started.
C30_Witness ==
    /\ stage = "run_research"
    /\ at = "wait"
    /\ state.trend_radar = None
    /\ state.jurisdiction_constraints # None
    /\ state.patent_scan # None
    /\ "00_preflight/patent_scan.json" \in files

\* C31: for every input it collects, assemble_package takes the artifact on
\* disk when the run has one, and the field of the pipeline state only when
\* it has none.
C31_DiskBeforeState ==
    pdf_inputs # None =>
        /\ "01_research/market_research.json" \in files =>
              pdf_inputs.research = "disk"
        /\ AgentFile("run_research") \in files => pdf_inputs.report = "disk"
        /\ AgentFile("run_design_and_math") \in files =>
              pdf_inputs.gdd = "disk"
        /\ "03_math/simulation_results.json" \in files =>
              pdf_inputs.math = "disk"
        /\ comp_json = "object" => pdf_inputs.compliance = "disk"

\* C32: assemble_package never aborts over one missing or malformed input:
\* a run that reaches the assembly with the art direction approved has
\* collected its inputs and handed them to the PDF generator, and has written
\* the manifest.
C32_AssemblyDegradesByField ==
    (stage = "done" /\ state.mood_board_approved) =>
        /\ "PACKAGE_MANIFEST.json" \in files
        /\ pdf_inputs # None

\* The time the file with path p was written.
Mtime(p) == CHOOSE i \in DOMAIN listing : listing[i] = p

\* C33: the file list of a checkpoint in remote mode has at most 20 paths,
\* all of files under the output root, and they are the most recent ones:
\* no file left out is newer than a file in the list.
C33_RecentFilesShown ==
    shown # None =>
        /\ Len(shown.some) <= ReviewFilesMax
        /\ Range(shown.some) \subseteq Range(listing)
        /\ \A f \in Range(shown.some) :
              \A g \in Range(listing) \ Range(shown.some) :
                 Mtime(g) < Mtime(f)

\* hitl_checkpoint was called at checkpoint n.
Consulted(n) == hitl[n].path # "none" \/ hitl[n].remote > 0

\* C34: mood_board_approved implies design_math_approved, which implies
\* research_approved; and a checkpoint is consulted only if every earlier
\* checkpoint was approved.
C34_ApprovalsNested ==
    /\ state.mood_board_approved => state.design_math_approved
    /\ state.design_math_approved => state.research_approved
    /\ Consulted("post_design_math") => state.research_approved
    /\ Consulted("post_art_review") =>
          (state.research_approved /\ state.design_math_approved)

\* Research was approved and the design rejected: the art checkpoint was
\* not consulted and the run has ended.
C34_Witness ==
    /\ stage = "done"
    /\ state.research_approved
    /\ Rejected("post_design_math")
    /\ ~state.design_math_approved
    /\ ~Consulted("post_art_review")
    /\ ~state.mood_board_approved

\* The checkpoint stage s has returned.
Past(s) ==
    \/ stage = "done"
    \/ stage # "failed" /\ IndexOf(stage) > IndexOf(s)

\* C35: after a checkpoint stage has returned, its approval flag equals the
\* checkpoint's entry of the approvals map if there is one, and is false if
\* there is none.
C35_FlagMatchesMap ==
    \A s \in CheckpointStages :
        Past(s) =>
            state[ApprovalFlag(s)] =
                (IF DictHas(state.hitl_approvals, CheckpointName(s))
                 THEN DictGet(state.hitl_approvals, CheckpointName(s))
                 ELSE FALSE)

\* Research was rejected through the review channel: the entry and the flag
\* are false, and the later checkpoints have no entry.
C35_Witness ==
    /\ stage = "done"
    /\ hitl["post_research"].path = "remote"
    /\ DictHas(state.hitl_approvals, "post_research")
    /\ ~DictGet(state.hitl_approvals, "post_research")
    /\ ~state.research_approved
    /\ ~DictHas(state.hitl_approvals, "post_design_math")
    /\ ~DictHas(state.hitl_approvals, "post_art_review")

\* C36: a work unit that ends, by an exception or otherwise, when its
\* envelope call has already returned the timeout signal reaches nobody: the
\* step leaves the holders the driver reads, the driver's position, the
\* pipeline state with its error log, the flow's failure and the job's row
\* as they are.
C36_LateErrorDropped ==
    [][\A t \in Threads :
          (thr[t] = "alive" /\ thr'[t] = "dead" /\ ~Awaited(t)) =>
              UNCHANGED <<stage, at, state, failure, ret, result_holder,
                          error_holder, db_status, db_error, db_stage>>]_vars

\* The mood-board crew ended after its envelope call had timed out, before
\* the stage went on.
C36_Witness ==
    /\ stage = "run_mood_boards"
    /\ at = "post"
    /\ ret.kind = "timeout"
    /\ thr["run_mood_boards"] = "dead"
    /\ error_holder = None
    /\ failure = None

\* C37: the statuses complete and failed are absorbing for the recovery
\* sweep and the stage-label updates: no step but the worker's own start and
\* exit changes the status of a job that is complete or failed.
C37_TerminalStatusAbsorbing ==
    [][(/\ db_status \in {"complete", "failed"}
        /\ ~(at = "spawned" /\ at' = "begin")
        /\ ~(at # "exit" /\ at' = "exit")) =>
          db_status' = db_status]_vars

\* C38: a review submitted through the web form is recorded as approved
\* exactly when its action field is "approve"; a form without an action
\* field is an approval, and any other value is a rejection.
C38_ApprovedIffActionApprove ==
    \A n \in CheckpointNames :
        hitl[n].path = "remote" =>
            /\ hitl[n].returned =
                   <<hitl[n].action \in {None, Some("approve")}>>
            /\ <<n, hitl[n].action \in {None, Some("approve")}>>
                   \in state.hitl_approvals

C38_Witness ==
    /\ hitl["post_research"].path = "remote"
    /\ hitl["post_research"].action = None
    /\ hitl["post_research"].returned = <<TRUE>>
    /\ state.research_approved
    /\ stage = "done"

\* C39: every critique the review hook wrote for a checkpoint is among the
\* review documents assemble_package collected for the PDFs.
C39_ReviewsCollected ==
    pdf_inputs # None =>
        \A s \in CheckpointStages :
            AgentFile(s) \in files => AgentFile(s) \in pdf_inputs.reviews

====
